---- MODULE Spec2Model ----
(***************************************************************************)
(* A model of issues.py: the scanner and tree walker (find_all_sorries),   *)
(* the import resolver (find_and_read_imports), the enrichment pipeline    *)
(* (process_sorries, generate_ai_analysis) and the publisher               *)
(* (create_github_issue, run_command), driven by main.                     *)
(***************************************************************************)
EXTENDS Integers, Sequences, FiniteSets, Bags, TLC

(***************************************************************************)
(* Text.  A name is a sequence of one-character strings, so that           *)
(* str.capitalize() can be computed.  A line of a source file is a record  *)
(* of what the code's regular expressions and find() calls see in it.      *)
(***************************************************************************)

\* issues.py:13
MAX_IMPORT_FILE_SIZE == 25000

\* issues.py:12
ISSUE_LABEL == "proof wanted"

Upper(c) == CASE c = "a" -> "A" [] c = "b" -> "B" [] c = "x" -> "X" [] OTHER -> c

Lower(c) == CASE c = "A" -> "a" [] c = "B" -> "b" [] c = "X" -> "x" [] OTHER -> c

\* str.capitalize(): first character upper-cased, every other one lower-cased.
Capitalize(s) == [i \in 1..Len(s) |-> IF i = 1 THEN Upper(s[i]) ELSE Lower(s[i])]

\* The value of full_path when no candidate exists (None in the code).
NoPath == [root |-> "none", dir |-> <<>>, rel |-> <<>>]

\* os.path.join(package_root, relative_path)
PackagePath(dir, parts) == [root |-> "package", dir |-> dir, rel |-> parts]

\* os.path.join(repo_root, relative_path)
RootPath(parts) == [root |-> "repo", dir |-> <<>>, rel |-> parts]

\* os.path.join(repo_root, 'src', relative_path)
SrcPath(parts) == [root |-> "src", dir |-> <<>>, rel |-> parts]

\* A file system: disk.packages is the listing of .lake/packages (empty when
\* the directory is missing), disk.files maps each existing path to its file.
PathExists(disk, p) == p \in DOMAIN disk.files

\* The package_map values the loop over os.listdir can leave: one entry per
\* capitalized name; when two directories capitalize alike the one listed
\* last wins, and the listing order is arbitrary.
PackageMaps(disk) ==
    LET keys == {Capitalize(d) : d \in disk.packages}
    IN  {pm \in [keys -> disk.packages] : \A k \in keys : Capitalize(pm[k]) = k}

\* ResolvePath with the project root tried before the dependency package.
ResolvePathRootFirst(parts, package_map, disk) ==
    IF PathExists(disk, RootPath(parts)) THEN RootPath(parts)
    ELSE IF Len(parts) > 0 /\ parts[1] \in DOMAIN package_map
              /\ PathExists(disk, PackagePath(package_map[parts[1]], parts))
         THEN PackagePath(package_map[parts[1]], parts)
    ELSE IF PathExists(disk, SrcPath(parts)) THEN SrcPath(parts)
    ELSE NoPath

\* Lines 75-94: the candidate that becomes full_path.
ResolvePath(parts, package_map, disk) ==
    LET dep == IF Len(parts) > 0 /\ parts[1] \in DOMAIN package_map
                    /\ PathExists(disk, PackagePath(package_map[parts[1]], parts))
               THEN PackagePath(package_map[parts[1]], parts)
               ELSE NoPath
    IN  IF dep # NoPath THEN dep
        ELSE IF PathExists(disk, RootPath(parts)) THEN RootPath(parts)
        ELSE IF PathExists(disk, SrcPath(parts)) THEN SrcPath(parts)
        ELSE NoPath

\* len(content) of the decoded text: characters, not bytes.
ContentLen(file) == file.chars

\* The size of the file on disk: every character takes one byte or more.
ByteSize(file) == file.chars + file.extra

\* ImportSection looking an unresolved import up whatever web_search is.
ImportSectionAlwaysWeb(parts, full_path, disk, web_search) ==
    IF full_path # NoPath
    THEN IF disk.files[full_path].readable
              /\ ContentLen(disk.files[full_path]) < MAX_IMPORT_FILE_SIZE
         THEN <<[kind |-> "file", label |-> parts, from |-> full_path]>>
         ELSE <<>>
    ELSE <<[kind |-> "web", label |-> parts, from |-> NoPath]>>

\* Lines 96-118: what one import line appends to imported_content.
ImportSection(parts, full_path, disk, web_search) ==
    IF full_path # NoPath
    THEN IF disk.files[full_path].readable
              /\ ContentLen(disk.files[full_path]) < MAX_IMPORT_FILE_SIZE
         THEN <<[kind |-> "file", label |-> parts, from |-> full_path]>>
         ELSE <<>>
    ELSE IF web_search
         THEN <<[kind |-> "web", label |-> parts, from |-> NoPath]>>
         ELSE <<>>

\* Lines 96-98: the paths the loop opens for one import line.
ImportOpened(parts, full_path) == IF full_path # NoPath THEN <<full_path>> ELSE <<>>

\* import_regex.match(line): line.import is match.group(1).split('.'), and
\* the empty sequence when the line is no import line.
IsImportLine(line) == line.import # <<>>

RECURSIVE ImportsFrom(_, _, _, _, _)
\* Lines 65-120: the loop over file_content.splitlines(), from line i on.
\* Returns the sections appended and the paths opened, in order.
ImportsFrom(lines, i, package_map, disk, web_search) ==
    IF i > Len(lines) THEN [context |-> <<>>, opened |-> <<>>]
    ELSE LET rest == ImportsFrom(lines, i + 1, package_map, disk, web_search)
             parts == lines[i].import
             full_path == ResolvePath(parts, package_map, disk)
         IN  IF ~IsImportLine(lines[i]) THEN rest
             ELSE [context |-> ImportSection(parts, full_path, disk, web_search)
                                  \o rest.context,
                   opened |-> ImportOpened(parts, full_path) \o rest.opened]

\* find_and_read_imports resolving an import path at its first line only.
find_and_read_imports_once(file_content, package_map, disk, web_search) ==
    ImportsFrom([k \in 1..Len(file_content) |->
                   IF \E j \in 1..(k - 1) : file_content[j].import = file_content[k].import
                   THEN [file_content[k] EXCEPT !.import = <<>>]
                   ELSE file_content[k]],
                1, package_map, disk, web_search)

\* Lines 52-120: the whole call, on the lines of file_content.
find_and_read_imports(file_content, package_map, disk, web_search) ==
    ImportsFrom(file_content, 1, package_map, disk, web_search)

(***************************************************************************)
(* The scanner and the tree walker, find_all_sorries.                      *)
(*                                                                         *)
(* A line carries: import (the split import path, <<>> when import_regex   *)
(* does not match), decl (decl_regex.search matches), name (what           *)
(* name_extract_regex captures in the stripped line, "" when it does not   *)
(* match), sorry and comment (line.find("sorry"), line.find("--"); -1 when *)
(* absent).                                                                *)
(***************************************************************************)

\* Line 269: "sorry" in line
HasSorry(line) == line.sorry >= 0

\* InComment taking any line comment on the line, wherever it starts.
InCommentAnywhere(line) == line.comment # -1

\* Lines 270-273: the marker sits behind the start of a line comment.
InComment(line) == line.comment # -1 /\ line.sorry > line.comment

\* SorryRecord with the 0-based index of enumerate as the line number.
SorryRecordZeroBased(file_path, lines, line_num, header_name, decl_linenum, imports) ==
    LET start_line == IF decl_linenum > 0 THEN decl_linenum ELSE line_num
    IN  [file_path |-> file_path,
         line_num |-> line_num - 1,
         decl_name |-> header_name,
         snippet |-> SubSeq(lines, start_line, line_num),
         full_content |-> lines,
         imports_context |-> imports]

\* SorryRecord with the slice ending before the marker's line.
SorryRecordShortSlice(file_path, lines, line_num, header_name, decl_linenum, imports) ==
    LET start_line == IF decl_linenum > 0 THEN decl_linenum ELSE line_num
    IN  [file_path |-> file_path,
         line_num |-> line_num,
         decl_name |-> header_name,
         snippet |-> SubSeq(lines, start_line, line_num - 1),
         full_content |-> lines,
         imports_context |-> imports]

\* Lines 275-289: the dict appended to sorries_to_process; imports is what
\* the call of find_and_read_imports at line 281 returned.
SorryRecord(file_path, lines, line_num, header_name, decl_linenum, imports) ==
    LET start_line == IF decl_linenum > 0 THEN decl_linenum ELSE line_num
    IN  [file_path |-> file_path,
         line_num |-> line_num,
         decl_name |-> header_name,
         snippet |-> SubSeq(lines, start_line, line_num),
         full_content |-> lines,
         imports_context |-> imports]

RECURSIVE ScanFromKeepsFirst(_, _, _, _, _, _, _, _)
\* ScanFrom where a later header does not replace the active one.
ScanFromKeepsFirst(file_path, lines, i, header_name, decl_linenum, package_map, disk, web) ==
    IF i > Len(lines) THEN <<>>
    ELSE LET line == lines[i]
             fresh == line.decl /\ decl_linenum = 0
             name == IF fresh THEN line.name ELSE header_name
             num == IF fresh THEN i ELSE decl_linenum
             rest == ScanFromKeepsFirst(file_path, lines, i + 1, name, num, package_map,
                                        disk, web)
         IN  IF HasSorry(line) /\ ~InComment(line)
             THEN <<SorryRecord(file_path, lines, i, name, num,
                        find_and_read_imports(lines, package_map, disk, web).context)>>
                  \o rest
             ELSE rest

RECURSIVE ScanFrom(_, _, _, _, _, _, _, _)
\* Lines 262-289: the loop over the lines of one file from line i on, with
\* the declaration context (current_decl_header's name, current_decl_linenum)
\* left by the lines before it.  find_and_read_imports is called for each
\* record, on the whole text of the file.
ScanFrom(file_path, lines, i, header_name, decl_linenum, package_map, disk, web) ==
    IF i > Len(lines) THEN <<>>
    ELSE LET line == lines[i]
             name == IF line.decl THEN line.name ELSE header_name
             num == IF line.decl THEN i ELSE decl_linenum
             rest == ScanFrom(file_path, lines, i + 1, name, num, package_map, disk, web)
         IN  IF HasSorry(line) /\ ~InComment(line)
             THEN <<SorryRecord(file_path, lines, i, name, num,
                        find_and_read_imports(lines, package_map, disk, web).context)>>
                  \o rest
             ELSE rest

\* Line 250: file.endswith(".lean"); a name is <<stem, extension>>.
IsLean(name) == name[2] = ".lean"

\* Line 247: directories never descended into; a directory's path is a
\* sequence of pieces and its last piece is the name os.walk lists.
Pruned(dirname) == dirname[Len(dirname)] \in {".lake", "build"}

\* Line 253: os.path.join(root, file)
JoinPath(dirname, name) == dirname \o <<"/">> \o name

\* The order of sorted(files): names compare by their stem's rank.
Rank(name) == CASE name[1] = "A" -> 1 [] name[1] = "B" -> 2 [] OTHER -> 3

RECURSIVE SortedFiles(_)
\* Line 249: sorted(files) as a sequence.
SortedFiles(names) ==
    IF names = {} THEN <<>>
    ELSE LET first == CHOOSE n \in names : \A m \in names : Rank(n) <= Rank(m)
         IN  <<first>> \o SortedFiles(names \ {first})

\* ScanFile starting from a declaration context left by an earlier file
\* instead of the cleared one of lines 254-255.
ScanFileStale(dirname, name, file, package_map, disk, web_search) ==
    IF ~file.readable THEN [raised |-> TRUE, sorries |-> <<>>, resolved |-> <<>>]
    ELSE LET found == ScanFrom(JoinPath(dirname, name), file.lines, 1, "foo", 1,
                               package_map, disk, web_search)
         IN  [raised |-> FALSE,
              sorries |-> found,
              resolved |-> [k \in 1..Len(found) |-> JoinPath(dirname, name)]]

\* Lines 253-289: one eligible file.  An unreadable file raises in open() or
\* readlines(); nothing catches it, so the exception leaves find_all_sorries.
\* resolved lists the calls of find_and_read_imports by the file they were
\* made for: line 281 sits in the branch that appends a record, so there is
\* one call for each record.
ScanFile(dirname, name, file, package_map, disk, web_search) ==
    IF ~file.readable THEN [raised |-> TRUE, sorries |-> <<>>, resolved |-> <<>>]
    ELSE LET found == ScanFrom(JoinPath(dirname, name), file.lines, 1, "", 0,
                               package_map, disk, web_search)
         IN  [raised |-> FALSE,
              sorries |-> found,
              resolved |-> [k \in 1..Len(found) |-> JoinPath(dirname, name)]]

RECURSIVE WalkFiles(_, _, _, _, _, _)
\* Lines 249-289: the files of one directory, in sorted order, from the k-th.
WalkFiles(dir, order, k, package_map, disk, web_search) ==
    IF k > Len(order) THEN [raised |-> FALSE, sorries |-> <<>>, resolved |-> <<>>]
    ELSE IF ~IsLean(order[k])
         THEN WalkFiles(dir, order, k + 1, package_map, disk, web_search)
         ELSE LET one == ScanFile(dir.name, order[k], dir.files[order[k]],
                                  package_map, disk, web_search)
                  rest == WalkFiles(dir, order, k + 1, package_map, disk, web_search)
              IN  IF one.raised THEN one
                  ELSE [raised |-> rest.raised,
                        sorries |-> one.sorries \o rest.sorries,
                        resolved |-> one.resolved \o rest.resolved]

RECURSIVE WalkDirs(_, _, _, _, _)
\* Lines 246-289: os.walk over the directories of the tree from the d-th; the
\* tree lists its directories in the order os.walk yields them.
WalkDirs(tree, d, package_map, disk, web_search) ==
    IF d > Len(tree) THEN [raised |-> FALSE, sorries |-> <<>>, resolved |-> <<>>]
    ELSE IF Pruned(tree[d].name)
         THEN WalkDirs(tree, d + 1, package_map, disk, web_search)
         ELSE LET here == WalkFiles(tree[d], SortedFiles(DOMAIN tree[d].files), 1,
                                    package_map, disk, web_search)
                  rest == WalkDirs(tree, d + 1, package_map, disk, web_search)
              IN  IF here.raised THEN here
                  ELSE [raised |-> rest.raised,
                        sorries |-> here.sorries \o rest.sorries,
                        resolved |-> here.resolved \o rest.resolved]

\* Lines 233-290.  raised: an exception left the function and no list was
\* returned.
find_all_sorries(tree, package_map, disk, web_search) ==
    LET walk == WalkDirs(tree, 1, package_map, disk, web_search)
    IN  IF walk.raised
        THEN [raised |-> TRUE, sorries |-> <<>>, resolved |-> walk.resolved]
        ELSE walk

(***************************************************************************)
(* The publisher (create_github_issue, run_command) and the enrichment     *)
(* pipeline (process_sorries, generate_ai_analysis).                       *)
(*                                                                         *)
(* A text is a sequence of pieces; the empty text is <<>>.                 *)
(***************************************************************************)

\* Lines 304-306: the title derived from a record.
Title(sorry_info) ==
    IF sorry_info.decl_name # ""
    THEN <<"Proof obligation for ", sorry_info.decl_name, " in ">>
             \o sorry_info.file_path
    ELSE <<"Proof obligation in ">> \o sorry_info.file_path
             \o <<" near line ", ToString(sorry_info.line_num)>>

\* Lines 308-317: the body; analysis_section is empty when ai_analysis is.
Body(sorry_info, ai_analysis) ==
    [file_path |-> sorry_info.file_path,
     analysis_section |-> IF ai_analysis # <<>>
                          THEN <<[header |-> "AI Analysis", text |-> ai_analysis]>>
                          ELSE <<>>,
     line_num |-> sorry_info.line_num,
     snippet |-> sorry_info.snippet]

\* Line 206: the f-string of the search query.  Its doubled braces around
\* title are an escape, so the quoted phrase is the text {title} itself,
\* whatever the title is; repo_name is substituted.
SearchQuery(title, repo_name) ==
    [phrase |-> <<"{title}">>, in |-> "title", repo |-> repo_name, is |-> "open"]

\* A phrase occurs in a text: as a run of consecutive pieces.
Contains(text, phrase) ==
    \E k \in 0..(Len(text) - Len(phrase)) :
        \A j \in 1..Len(phrase) : text[k + j] = phrase[j]

\* The remote store is a bag of issues: issues[x] is how many issues equal
\* to x it holds.  Of an issue it keeps the title, the label and the state,
\* which is all a search or a later run looks at.
\* gh issue list --search: the issues of the store the query selects.
SearchIssues(issues, query) ==
    {x \in DOMAIN issues :
        /\ x.state = query.is
        /\ Contains(x.title, query.phrase)}

\* gh issue create: the store after a successful create.
CreateIssue(issues, title, body, label) ==
    LET x == [title |-> title, label |-> label, state |-> "open"]
    IN  IF x \in DOMAIN issues
        THEN [issues EXCEPT ![x] = @ + 1]
        ELSE [y \in DOMAIN issues \cup {x} |-> IF y = x THEN 1 ELSE issues[y]]

\* Lines 190-191: the text a successful analysis call returns for its
\* arguments.
AnalysisText(code_snippet, full_file_content, imports_context) ==
    <<[snippet |-> code_snippet, full |-> full_file_content,
       imports |-> imports_context]>>

\* Lines 192-198: any exception of the call is caught and the empty text
\* returned.
AnalysisFailure == <<>>

\* MainBranch without the test of args.dry_run.
MainBranchNoDryRun(sorries, dry_run) ==
    IF Len(sorries) = 0 THEN "none" ELSE "process"

\* Lines 388-398: what main does with the list find_all_sorries returned.
MainBranch(sorries, dry_run) ==
    IF Len(sorries) = 0 THEN "none"
    ELSE IF dry_run THEN "dry"
    ELSE "process"

(***************************************************************************)
(* Inputs: lines, file texts, source trees and file systems.               *)
(***************************************************************************)

\* The runs of main over one tree.
MaxRuns == 2

\* The records one walk of a tree may find.
MaxSorries == 3

\* The import lines of a file given to the resolver.
MaxImports == 2

PlainLine == [import |-> <<>>, decl |-> FALSE, name |-> "", sorry |-> -1, comment |-> -1]

DeclLine(name) == [PlainLine EXCEPT !.decl = TRUE, !.name = name]

SorryLine == [PlainLine EXCEPT !.sorry = 2]

CommentedSorry == [PlainLine EXCEPT !.sorry = 3, !.comment = 0]

ImportLine(parts) == [PlainLine EXCEPT !.import = parts]

\* The import path Ab.X, and AB.X, whose first segment no capitalized
\* directory name equals.
ImportAbX == <<<<"A", "b">>, <<"X">>>>

ImportABX == <<<<"A", "B">>, <<"X">>>>

TextTwice == <<DeclLine("foo"), SorryLine, SorryLine>>

TextBare == <<SorryLine>>

TextClean == <<DeclLine("foo"), CommentedSorry>>

TextImport == <<ImportLine(ImportAbX), DeclLine("bar"), SorryLine>>

SourceFile(lines) == [readable |-> TRUE, lines |-> lines]

Unreadable == [readable |-> FALSE, lines |-> <<>>]

NameA == <<"A", ".lean">>

NameB == <<"B", ".lean">>

NameN == <<"N", ".txt">>

\* What A.lean and B.lean may be: <<>> stands for no such file.
ChoicesA ==
    {<<>>, <<Unreadable>>} \cup {<<SourceFile(t)>> : t \in {TextTwice, TextClean}}

ChoicesB ==
    {<<>>, <<Unreadable>>, <<SourceFile(TextImport)>>}

\* A directory holding A.lean and B.lean as chosen (<<>>: no such file) and
\* always N.txt, which has a marker and no .lean extension.
RootDir(a, b) ==
    [name |-> <<".">>,
     files |-> [n \in {NameN} \cup (IF a = <<>> THEN {} ELSE {NameA})
                              \cup (IF b = <<>> THEN {} ELSE {NameB}) |->
                  IF n = NameA THEN a[1] ELSE IF n = NameB THEN b[1]
                  ELSE SourceFile(TextBare)]]

SubDir(sub) ==
    [name |-> <<".", "/", sub>>, files |-> [n \in {NameA} |-> SourceFile(TextBare)]]

ImportedFile(chars, extra, readable) ==
    [chars |-> chars, extra |-> extra, readable |-> readable]

\* The file system of the pipeline runs: one package directory ab holding
\* Ab/X.lean, and the same relative path under the repository root.
PipelineDisk ==
    [packages |-> {<<"a", "b">>},
     files |-> [p \in {PackagePath(<<"a", "b">>, ImportAbX), RootPath(ImportAbX)} |->
                  ImportedFile(10, 0, TRUE)]]

NoFutures == <<>>

NoIssues == <<>>

NoLog ==
    [analysis_failed |-> {}, search_failed |-> {}, skipped |-> {},
     create_failed |-> {}, created |-> {}, bodies |-> <<>>]

NoArgs == [dry_run |-> FALSE, web_search |-> FALSE]

NoPrev == [processed |-> FALSE, failed |-> FALSE, issues |-> 0]

IdleResolver ==
    [stage |-> "idle", file_content |-> <<>>, web_search |-> FALSE,
     package_map |-> <<>>, result |-> [context |-> <<>>, opened |-> <<>>]]

(***************************************************************************)
(* State.                                                                  *)
(***************************************************************************)
VARIABLES
    tree,                \* the source tree under search_path
    disk,                \* the files import resolution looks at
    store,               \* the issues of the remote repository
    run,                 \* how many times main has been started
    args,                \* the parsed arguments of the current run
    pc,                  \* where main is
    sorries_to_process,  \* the list find_all_sorries returned
    future_to_sorry,     \* per submitted task: its record, state and result
    yielded,             \* the futures as_completed has yielded
    current,             \* the future whose issue is about to be created
    handed,              \* per record: calls of create_github_issue
    log,                 \* what the run reported, per record
    prev,                \* how the previous run went, and the number of issues
                         \* in the store when the current run started
    resolver,            \* one call of find_and_read_imports on its own
    imports_calls        \* the calls of find_and_read_imports the walk made

vars ==
    <<tree, disk, store, run, args, pc, sorries_to_process, future_to_sorry,
      yielded, current, handed, log, prev, resolver, imports_calls>>

Futures == DOMAIN future_to_sorry

AllDone == \A i \in Futures : future_to_sorry[i].state = "done"

RunEnded == pc \in {"done", "exited", "crashed"}

RunFailed ==
    \/ pc \in {"exited", "crashed", "exiting"}
    \/ log.analysis_failed # {} \/ log.search_failed # {} \/ log.create_failed # {}

\* A tree without the files that cannot be read.
ReadableTree(t) ==
    [d \in 1..Len(t) |->
       [t[d] EXCEPT !.files =
          [n \in {m \in DOMAIN t[d].files : t[d].files[m].readable} |-> t[d].files[n]]]]

\* The records of the readable eligible files of a tree, in walk order.
ReadableSorries(t, web_search) ==
    find_all_sorries(ReadableTree(t), CHOOSE pm \in PackageMaps(PipelineDisk) : TRUE,
                     PipelineDisk, web_search).sorries

\* The trees of the pipeline runs: the root directory, then one
\* subdirectory, pruned (.lake) or visited.
PipelineTrees ==
    {t \in {<<RootDir(a, b), SubDir(sub)>> :
                a \in ChoicesA, b \in ChoicesB, sub \in {".lake", "{title}"}} :
        Len(ReadableSorries(t, FALSE)) <= MaxSorries}

Init ==
    /\ tree \in PipelineTrees
    /\ disk = PipelineDisk
    /\ store = NoIssues
    /\ run = 0
    /\ args = NoArgs
    /\ pc = "idle"
    /\ sorries_to_process = <<>>
    /\ future_to_sorry = NoFutures
    /\ yielded = {}
    /\ current = 0
    /\ handed = <<>>
    /\ log = NoLog
    /\ prev = NoPrev
    /\ resolver = IdleResolver
    /\ imports_calls = <<>>

(***************************************************************************)
(* main                                                                    *)
(***************************************************************************)

\* Lines 325-384 of a new run: the arguments are parsed and the setup
\* succeeds.
StartRun(dry_run, web_search) ==
    /\ pc = "idle" \/ RunEnded
    /\ run < MaxRuns
    /\ run' = run + 1
    /\ args' = [dry_run |-> dry_run, web_search |-> web_search]
    /\ prev' = [processed |-> pc = "done" /\ Futures # {}, failed |-> RunFailed,
                 issues |-> BagCardinality(store)]
    /\ pc' = "scan"
    /\ sorries_to_process' = <<>>
    /\ future_to_sorry' = NoFutures
    /\ yielded' = {}
    /\ current' = 0
    /\ handed' = <<>>
    /\ log' = NoLog
    /\ imports_calls' = <<>>
    /\ UNCHANGED <<tree, disk, store, resolver>>

\* Lines 18-27, 370-372, 377: a missing tool, a missing repository path or a
\* failing gh repo view ends the run with sys.exit(1) before any scanning.
SetupExits ==
    /\ pc = "idle" \/ RunEnded
    /\ run < MaxRuns
    /\ run' = run + 1
    /\ args' = NoArgs
    /\ prev' = [processed |-> pc = "done" /\ Futures # {}, failed |-> RunFailed,
                 issues |-> BagCardinality(store)]
    /\ pc' = "exited"
    /\ sorries_to_process' = <<>>
    /\ future_to_sorry' = NoFutures
    /\ yielded' = {}
    /\ current' = 0
    /\ handed' = <<>>
    /\ log' = NoLog
    /\ imports_calls' = <<>>
    /\ UNCHANGED <<tree, disk, store, resolver>>

\* Line 386: find_all_sorries returns its list, or an exception leaves it
\* and main.
FindAll ==
    /\ pc = "scan"
    /\ \E package_map \in PackageMaps(disk) :
          LET found == find_all_sorries(tree, package_map, disk, args.web_search)
          IN  /\ imports_calls' = found.resolved
              /\ IF found.raised
                 THEN /\ pc' = "crashed"
                      /\ UNCHANGED sorries_to_process
                 ELSE /\ pc' = "found"
                      /\ sorries_to_process' = found.sorries
    /\ UNCHANGED <<tree, disk, store, run, args, future_to_sorry, yielded, current,
                   handed, log, prev, resolver>>

\* Lines 388-390: nothing found.
NothingFound ==
    /\ pc = "found"
    /\ MainBranch(sorries_to_process, args.dry_run) = "none"
    /\ pc' = "done"
    /\ UNCHANGED <<tree, disk, store, run, args, sorries_to_process, future_to_sorry,
                   yielded, current, handed, log, prev, resolver, imports_calls>>

\* Lines 392-396: the dry run prints the list and returns.
DryRun ==
    /\ pc = "found"
    /\ MainBranch(sorries_to_process, args.dry_run) = "dry"
    /\ pc' = "done"
    /\ UNCHANGED <<tree, disk, store, run, args, sorries_to_process, future_to_sorry,
                   yielded, current, handed, log, prev, resolver, imports_calls>>

(***************************************************************************)
(* process_sorries                                                         *)
(***************************************************************************)

\* Lines 294-298 (reached from line 398): every record is submitted to the
\* executor.
Submit ==
    /\ pc = "found"
    /\ MainBranch(sorries_to_process, args.dry_run) = "process"
    /\ future_to_sorry' =
          [i \in 1..Len(sorries_to_process) |->
             [sorry |-> sorries_to_process[i], state |-> "pending", result |-> <<>>]]
    /\ handed' = [i \in 1..Len(sorries_to_process) |-> 0]
    /\ pc' = "pool"
    /\ UNCHANGED <<tree, disk, store, run, args, sorries_to_process, yielded, current,
                   log, prev, resolver, imports_calls>>

\* A worker is running tasks: until the executor is shut down, which waits
\* for every submitted task.
Working == pc \in {"pool", "create", "exiting"}

\* Lines 135-191 on a worker thread: the call returns the analysis.
AnalysisReturns(i) ==
    /\ Working
    /\ future_to_sorry[i].state = "pending"
    /\ future_to_sorry' =
          [future_to_sorry EXCEPT
             ![i].state = "done",
             ![i].result = AnalysisText(future_to_sorry[i].sorry.snippet,
                                        future_to_sorry[i].sorry.full_content,
                                        future_to_sorry[i].sorry.imports_context)]
    /\ UNCHANGED <<tree, disk, store, run, args, pc, sorries_to_process, yielded,
                   current, handed, log, prev, resolver, imports_calls>>

\* Lines 192-198 on a worker thread: the call raises and the empty text is
\* the result.
AnalysisFails(i) ==
    /\ Working
    /\ future_to_sorry[i].state = "pending"
    /\ future_to_sorry' =
          [future_to_sorry EXCEPT ![i].state = "done", ![i].result = AnalysisFailure]
    /\ log' = [log EXCEPT !.analysis_failed = @ \cup {i}]
    /\ UNCHANGED <<tree, disk, store, run, args, pc, sorries_to_process, yielded,
                   current, handed, prev, resolver, imports_calls>>

\* SorryOf taking the record at the future's place in the order of completion.
SorryOfByPosition(i) == sorries_to_process[Cardinality(yielded \cup {i})]

\* Line 300: sorry_info = future_to_sorry[future], the record the future was
\* submitted with.
SorryOf(i) == future_to_sorry[i].sorry

\* Yields without waiting for create_github_issue to return.
YieldsAnytime(i) ==
    /\ Working
    /\ i \in Futures \ yielded
    /\ future_to_sorry[i].state = "done"
    /\ yielded' = yielded \cup {i}
    /\ handed' = [handed EXCEPT ![i] = @ + 1]

\* Lines 299-319 and 205-208: as_completed yields a finished future, the
\* title and body are built and create_github_issue runs its search.
Yields(i) ==
    /\ pc = "pool"
    /\ i \in Futures \ yielded
    /\ future_to_sorry[i].state = "done"
    /\ yielded' = yielded \cup {i}
    /\ handed' = [handed EXCEPT ![i] = @ + 1]

Existing(i) ==
    SearchIssues(store, SearchQuery(Title(SorryOf(i)), "repo"))

\* Lines 123-133: gh issue list fails; run_command prints and calls
\* sys.exit(1).  SystemExit is neither a CalledProcessError (line 212) nor an
\* Exception (line 320): it leaves the loop, and the executor's exit waits for
\* the tasks still running.
CheckExits(i) ==
    /\ Yields(i)
    /\ log' = [log EXCEPT !.search_failed = @ \cup {i}]
    /\ pc' = "exiting"
    /\ UNCHANGED <<tree, disk, store, run, args, sorries_to_process, future_to_sorry,
                   current, prev, resolver, imports_calls>>

\* Lines 209-211: the search printed something; skip.
CheckFinds(i) ==
    /\ Yields(i)
    /\ Existing(i) # {}
    /\ log' = [log EXCEPT !.skipped = @ \cup {i}]
    /\ UNCHANGED <<tree, disk, store, run, args, pc, sorries_to_process,
                   future_to_sorry, current, prev, resolver, imports_calls>>

\* Lines 209, 219-225: the search printed nothing; go on to create.
CheckEmpty(i) ==
    /\ Yields(i)
    /\ Existing(i) = {}
    /\ current' = i
    /\ pc' = "create"
    /\ UNCHANGED <<tree, disk, store, run, args, sorries_to_process, future_to_sorry,
                   log, prev, resolver, imports_calls>>

\* Lines 226-228: gh issue create succeeds.
CreateOk ==
    /\ pc = "create"
    /\ store' = CreateIssue(store, Title(SorryOf(current)),
                            Body(SorryOf(current), future_to_sorry[current].result),
                            ISSUE_LABEL)
    /\ log' = [log EXCEPT !.created = @ \cup {current},
                           !.bodies = [j \in DOMAIN @ \cup {current} |->
                                         IF j = current
                                         THEN Body(SorryOf(current),
                                                   future_to_sorry[current].result)
                                         ELSE @[j]]]
    /\ current' = 0
    /\ pc' = "pool"
    /\ UNCHANGED <<tree, disk, run, args, sorries_to_process, future_to_sorry, yielded,
                   handed, prev, resolver, imports_calls>>

\* Lines 229-230 (and 320-321 for any other exception): the create fails
\* and the failure is printed.
CreateFails ==
    /\ pc = "create"
    /\ log' = [log EXCEPT !.create_failed = @ \cup {current}]
    /\ current' = 0
    /\ pc' = "pool"
    /\ UNCHANGED <<tree, disk, store, run, args, sorries_to_process, future_to_sorry,
                   yielded, handed, prev, resolver, imports_calls>>

\* Lines 299, 400-401: every future was yielded; main prints and returns.
Finish ==
    /\ pc = "pool"
    /\ yielded = Futures
    /\ pc' = "done"
    /\ UNCHANGED <<tree, disk, store, run, args, sorries_to_process, future_to_sorry,
                   yielded, current, handed, log, prev, resolver, imports_calls>>

\* Line 294: the with block's exit has waited for the tasks; SystemExit ends
\* the process.
Exit ==
    /\ pc = "exiting"
    /\ AllDone
    /\ pc' = "exited"
    /\ UNCHANGED <<tree, disk, store, run, args, sorries_to_process, future_to_sorry,
                   yielded, current, handed, log, prev, resolver, imports_calls>>

Next ==
    \/ \E dry_run \in BOOLEAN : StartRun(dry_run, FALSE)
    \/ SetupExits
    \/ FindAll
    \/ NothingFound
    \/ DryRun
    \/ Submit
    \/ \E i \in Futures : AnalysisReturns(i)
    \/ \E i \in Futures : AnalysisFails(i)
    \/ \E i \in Futures : CheckExits(i)
    \/ \E i \in Futures : CheckFinds(i)
    \/ \E i \in Futures : CheckEmpty(i)
    \/ CreateOk
    \/ CreateFails
    \/ Finish
    \/ Exit

Spec == Init /\ [][Next]_vars

(***************************************************************************)
(* find_and_read_imports on its own: one call on a file's text over a file *)
(* system drawn from the candidates of the imports Ab.X and AB.X.          *)
(***************************************************************************)

\* The files an import may resolve to: one character under the threshold,
\* the same with a three-byte character in it, exactly at the threshold, and
\* one that cannot be read.
ImportedFiles ==
    {ImportedFile(MAX_IMPORT_FILE_SIZE - 1, 0, TRUE),
     ImportedFile(MAX_IMPORT_FILE_SIZE - 1, 2, TRUE),
     ImportedFile(MAX_IMPORT_FILE_SIZE, 0, TRUE),
     ImportedFile(10, 0, FALSE)}

PackageDirs == {<<"a", "b">>, <<"A", "b">>}

ImportDisks ==
    {[packages |-> ps, files |-> fs] :
        ps \in SUBSET PackageDirs,
        fs \in UNION {[locs -> ImportedFiles] :
                  locs \in SUBSET ({PackagePath(d, ImportAbX) : d \in PackageDirs}
                                   \cup {RootPath(ImportAbX), SrcPath(ImportAbX),
                                         SrcPath(ImportABX)})}} 

ImportTexts ==
    UNION {[1..n -> {ImportLine(ImportAbX), ImportLine(ImportABX), PlainLine}] :
              n \in 0..MaxImports}

InitImports ==
    /\ disk \in {d \in ImportDisks :
                    \A p \in DOMAIN d.files : p.root = "package" => p.dir \in d.packages}
    /\ resolver \in {[IdleResolver EXCEPT !.stage = "called", !.file_content = t,
                                          !.web_search = w] :
                        t \in ImportTexts, w \in BOOLEAN}
    /\ tree = <<>>
    /\ store = NoIssues
    /\ run = 0
    /\ args = NoArgs
    /\ pc = "idle"
    /\ sorries_to_process = <<>>
    /\ future_to_sorry = NoFutures
    /\ yielded = {}
    /\ current = 0
    /\ handed = <<>>
    /\ log = NoLog
    /\ prev = NoPrev
    /\ imports_calls = <<>>

\* Lines 52-120: the call builds its package_map and returns the context.
ReadImports ==
    /\ resolver.stage = "called"
    /\ \E package_map \in PackageMaps(disk) :
          resolver' = [resolver EXCEPT
                         !.stage = "returned",
                         !.package_map = package_map,
                         !.result = find_and_read_imports(resolver.file_content,
                                       package_map, disk, resolver.web_search)]
    /\ UNCHANGED <<tree, disk, store, run, args, pc, sorries_to_process,
                   future_to_sorry, yielded, current, handed, log, prev, imports_calls>>

NextImports == ReadImports

SpecImports == InitImports /\ [][NextImports]_vars

(***************************************************************************)
(* find_all_sorries on its own: one walk over a directory holding A.lean   *)
(* (absent, or one of two texts with a declaration) and B.lean, whose text *)
(* is any sequence of at most MaxLines lines.                              *)
(***************************************************************************)

\* The lines of a scanned file.
MaxLines == 4

\* sorry -- todo: the marker, then a comment.
SorryThenComment == [PlainLine EXCEPT !.sorry = 2, !.comment = 8]

\* theorem foo : P := sorry: a header with the marker on its line.
DeclSorryLine == [DeclLine("foo") EXCEPT !.sorry = 20]

\* theorem bar : P := by -- sorry: a header with the marker in its comment.
DeclCommentedLine == [DeclLine("bar") EXCEPT !.comment = 24, !.sorry = 27]

ScanLines ==
    {PlainLine, DeclLine("foo"), DeclLine("bar"), SorryLine, CommentedSorry,
     SorryThenComment, DeclSorryLine, DeclCommentedLine}

ScanTexts == UNION {[1..n -> ScanLines] : n \in 0..MaxLines}

ScanTrees ==
    {<<RootDir(a, <<SourceFile(t)>>)>> :
        a \in {<<>>, <<SourceFile(TextTwice)>>, <<SourceFile(TextClean)>>},
        t \in ScanTexts}

InitScan ==
    /\ tree \in ScanTrees
    /\ disk = PipelineDisk
    /\ store = NoIssues
    /\ run = 1
    /\ args = NoArgs
    /\ pc = "scan"
    /\ sorries_to_process = <<>>
    /\ future_to_sorry = NoFutures
    /\ yielded = {}
    /\ current = 0
    /\ handed = <<>>
    /\ log = NoLog
    /\ prev = NoPrev
    /\ resolver = IdleResolver
    /\ imports_calls = <<>>

NextScan == FindAll

SpecScan == InitScan /\ [][NextScan]_vars

(***************************************************************************)
(* The scanner: which lines yield a record, and what the record holds.     *)
(***************************************************************************)

\* The .lean files of the directory walked, and what the walk found in each.
ScannedFiles == {n \in DOMAIN tree[1].files : n[2] = ".lean"}

LinesOf(n) == tree[1].files[n].lines

PathOf(n) == tree[1].name \o <<"/">> \o n

RecordsOf(n) == SelectSeq(sorries_to_process, LAMBDA r : r.file_path = PathOf(n))

MarkerLines(lines) == {i \in 1..Len(lines) : lines[i].sorry # -1}

\* The marker lines whose marker starts before any comment of the line.
QualifyingLines(lines) ==
    {i \in MarkerLines(lines) :
        lines[i].comment = -1 \/ lines[i].sorry < lines[i].comment}

\* The headers at or before line i.
HeadersUpTo(lines, i) == {j \in 1..i : lines[j].decl}

Latest(js) == CHOOSE j \in js : \A k \in js : k <= j

\* C11: a marker line whose marker starts after the start of a line comment
\* yields no record; a marker line whose marker starts before any comment,
\* or that has no comment, yields a record.
CommentExclusion ==
    pc = "found" =>
        \A n \in ScannedFiles : \A i \in MarkerLines(LinesOf(n)) :
            LET line == LinesOf(n)[i]
                recorded == \E k \in 1..Len(RecordsOf(n)) : RecordsOf(n)[k].line_num = i
            IN  /\ (line.comment # -1 /\ line.sorry > line.comment) => ~recorded
                /\ (line.comment = -1 \/ line.sorry < line.comment) => recorded

\* C11: a walk has returned for a file holding a marker behind a comment and
\* a marker in front of one.
CommentExclusionWitness ==
    /\ pc = "found"
    /\ \E i, j \in 1..Len(LinesOf(NameB)) :
          /\ LinesOf(NameB)[i] = CommentedSorry
          /\ LinesOf(NameB)[j] = SorryThenComment
    /\ Len(RecordsOf(NameB)) >= 1

\* C12: the records of a file are one per qualifying marker line, in
\* ascending line order, each numbered with the 1-based index of its line;
\* a file without the marker yields none.
OneRecordPerMarkerLine ==
    pc = "found" =>
        \A n \in ScannedFiles :
            LET recs == RecordsOf(n)
                lines == LinesOf(n)
            IN  /\ Len(recs) = Cardinality(QualifyingLines(lines))
                /\ \A k \in 1..Len(recs) : recs[k].line_num \in QualifyingLines(lines)
                /\ \A k \in 1..(Len(recs) - 1) : recs[k].line_num < recs[k + 1].line_num
                /\ MarkerLines(lines) = {} => recs = <<>>

\* C12: a walk has returned three records for lines 1, 3 and 4 of B.lean,
\* whose line 2 has the marker in a comment, and none for a file without a
\* qualifying marker.
OneRecordPerMarkerLineWitness ==
    /\ pc = "found"
    /\ NameA \in ScannedFiles /\ RecordsOf(NameA) = <<>>
    /\ Len(LinesOf(NameB)) = 4
    /\ LinesOf(NameB)[2] = CommentedSorry
    /\ Len(RecordsOf(NameB)) = 3
    /\ RecordsOf(NameB)[3].line_num = 4

\* C13: every record's snippet is non-empty and ends with the marker's line;
\* with no header at or before the marker line it is that line alone and the
\* declaration name is empty; otherwise it is the lines from the active
\* header through the marker line.
SnippetShape ==
    pc = "found" =>
        \A n \in ScannedFiles : \A k \in 1..Len(RecordsOf(n)) :
            LET r == RecordsOf(n)[k]
                lines == LinesOf(n)
                headers == HeadersUpTo(lines, r.line_num)
            IN  /\ Len(r.snippet) >= 1
                /\ r.snippet[Len(r.snippet)] = lines[r.line_num]
                /\ headers = {} => (r.snippet = <<lines[r.line_num]>> /\ r.decl_name = "")
                /\ headers # {} =>
                      r.snippet = [j \in 1..(r.line_num - Latest(headers) + 1) |->
                                     lines[Latest(headers) + j - 1]]

\* C13: a walk has returned a record without a header before it and a
\* record two lines below its header.
SnippetShapeWitness ==
    /\ pc = "found"
    /\ Len(RecordsOf(NameB)) = 2
    /\ RecordsOf(NameB)[1].line_num = 1
    /\ HeadersUpTo(LinesOf(NameB), 1) = {}
    /\ Len(RecordsOf(NameB)[2].snippet) = 3

StartLine(r) == r.line_num - Len(r.snippet) + 1

\* C14: a record carries the name of the nearest header at or before its
\* marker line; two records with no header between them and a header before
\* both carry the same name and start line, and the first one's snippet is a
\* prefix of the second's; a header followed by two qualifying marker lines
\* and the next header yields exactly two records.
NearestHeader ==
    pc = "found" =>
        \A n \in ScannedFiles :
            LET recs == RecordsOf(n)
                lines == LinesOf(n)
            IN  /\ \A k \in 1..Len(recs) :
                      HeadersUpTo(lines, recs[k].line_num) # {} =>
                          /\ recs[k].decl_name
                                = lines[Latest(HeadersUpTo(lines, recs[k].line_num))].name
                          /\ StartLine(recs[k])
                                = Latest(HeadersUpTo(lines, recs[k].line_num))
                /\ \A k \in 1..(Len(recs) - 1) :
                      (/\ HeadersUpTo(lines, recs[k].line_num) # {}
                       /\ HeadersUpTo(lines, recs[k].line_num)
                             = HeadersUpTo(lines, recs[k + 1].line_num)) =>
                          /\ recs[k].decl_name = recs[k + 1].decl_name
                          /\ StartLine(recs[k]) = StartLine(recs[k + 1])
                          /\ Len(recs[k].snippet) < Len(recs[k + 1].snippet)
                          /\ recs[k].snippet
                                = SubSeq(recs[k + 1].snippet, 1, Len(recs[k].snippet))
                /\ lines = <<DeclLine("foo"), SorryLine, SorryLine, DeclLine("bar")>> =>
                      Len(recs) = 2

\* C14: a walk has returned two records for a header followed by two marker
\* lines, and a record attributed to a second header of the same file.
NearestHeaderWitness ==
    /\ pc = "found"
    /\ \/ /\ LinesOf(NameB) = <<DeclLine("foo"), SorryLine, SorryLine, DeclLine("bar")>>
          /\ Len(RecordsOf(NameB)) = 2
          /\ RecordsOf(NameB)[2].decl_name = "foo"
       \/ /\ LinesOf(NameB) = <<DeclLine("foo"), SorryLine, DeclLine("bar"), SorryLine>>
          /\ RecordsOf(NameB)[2].decl_name = "bar"

\* The files walked before n that hold a header.
EarlierHeaders(n) ==
    {m \in ScannedFiles : Rank(m) < Rank(n) /\ HeadersUpTo(LinesOf(m), Len(LinesOf(m))) # {}}

\* C20: the declaration context does not carry over from one file to the
\* next: a marker before every header of its own file has an empty
\* declaration name and its own line as snippet, also when a file walked
\* earlier holds declarations.
NoCarryOver ==
    pc = "found" =>
        \A n \in ScannedFiles : \A k \in 1..Len(RecordsOf(n)) :
            LET r == RecordsOf(n)[k]
            IN  (EarlierHeaders(n) # {} /\ HeadersUpTo(LinesOf(n), r.line_num) = {}) =>
                    /\ r.decl_name = ""
                    /\ r.snippet = <<LinesOf(n)[r.line_num]>>

\* C20: a walk has returned records of A.lean under its header foo, and
\* then a record of B.lean for a marker on its first line.
NoCarryOverWitness ==
    /\ pc = "found"
    /\ NameA \in ScannedFiles
    /\ Len(RecordsOf(NameA)) = 2 /\ RecordsOf(NameA)[2].decl_name = "foo"
    /\ Len(RecordsOf(NameB)) >= 1
    /\ RecordsOf(NameB)[1].line_num = 1
    /\ RecordsOf(NameB)[1].decl_name = ""

\* The calls of find_and_read_imports made for file n.
CallsFor(n) == Len(SelectSeq(imports_calls, LAMBDA p : p = PathOf(n)))

\* C18: find_and_read_imports is called exactly once for every eligible
\* file, however many records the file yields, and the records of one file
\* carry the same imports_context and the same full_content.
ResolvedOncePerFile ==
    pc = "found" =>
        \A n \in ScannedFiles :
            /\ CallsFor(n) = 1
            /\ \A k, l \in 1..Len(RecordsOf(n)) :
                  /\ RecordsOf(n)[k].imports_context = RecordsOf(n)[l].imports_context
                  /\ RecordsOf(n)[k].full_content = RecordsOf(n)[l].full_content

(***************************************************************************)
(* Import resolution: precedence and the size threshold.                   *)
(***************************************************************************)

ImportLines == {k \in 1..Len(resolver.file_content) :
                   IsImportLine(resolver.file_content[k])}

\* The candidates of an import in the order dependency package, project
\* root, src/.
Candidates(parts) ==
    (IF parts[1] \in DOMAIN resolver.package_map
     THEN <<PackagePath(resolver.package_map[parts[1]], parts)>> ELSE <<>>)
    \o <<RootPath(parts), SrcPath(parts)>>

FirstExisting(cands) ==
    IF \E k \in 1..Len(cands) : PathExists(disk, cands[k])
    THEN <<cands[CHOOSE k \in 1..Len(cands) :
                   /\ PathExists(disk, cands[k])
                   /\ \A j \in 1..(k - 1) : ~PathExists(disk, cands[j])]>>
    ELSE <<>>

RECURSIVE ExpectedOpened(_)
ExpectedOpened(k) ==
    IF k > Len(resolver.file_content) THEN <<>>
    ELSE (IF k \in ImportLines
          THEN FirstExisting(Candidates(resolver.file_content[k].import))
          ELSE <<>>) \o ExpectedOpened(k + 1)

OpenedPaths == {resolver.result.opened[k] : k \in 1..Len(resolver.result.opened)}

\* The import's first segment is a key of the package map and the file
\* exists both in that package and under the project root.
Shadowed(parts) ==
    /\ parts[1] \in DOMAIN resolver.package_map
    /\ PathExists(disk, PackagePath(resolver.package_map[parts[1]], parts))
    /\ PathExists(disk, RootPath(parts))

\* C9: every import is read from the first existing candidate in the order
\* dependency package, project root, src/.  When the first segment matches a
\* known package and the file exists both in that package and under the
\* project root, the package's file is read and the project root's never;
\* the src/ file is read only when neither earlier candidate exists.
ImportPrecedence ==
    resolver.stage = "returned" =>
        /\ resolver.result.opened = ExpectedOpened(1)
        /\ \A k \in ImportLines :
              LET parts == resolver.file_content[k].import
              IN  /\ Shadowed(parts) =>
                        /\ PackagePath(resolver.package_map[parts[1]], parts)
                              \in OpenedPaths
                        /\ RootPath(parts) \notin OpenedPaths
                  /\ SrcPath(parts) \in OpenedPaths =>
                        /\ ~PathExists(disk, RootPath(parts))
                        /\ ~(/\ parts[1] \in DOMAIN resolver.package_map
                             /\ PathExists(disk,
                                  PackagePath(resolver.package_map[parts[1]], parts)))

\* C9: a call has returned for a file importing Ab.X, found both in the
\* package and under the project root, and read from the package.
ImportPrecedenceWitness ==
    /\ resolver.stage = "returned"
    /\ \E k \in ImportLines :
          /\ Shadowed(resolver.file_content[k].import)
          /\ PathExists(disk, SrcPath(resolver.file_content[k].import))
          /\ resolver.result.opened[1].root = "package"

ContextSources ==
    {resolver.result.context[k].from : k \in 1..Len(resolver.result.context)}

\* C10: a readable file an import resolves to contributes its labelled
\* section to the context exactly when its byte size is below 25,000; at
\* 25,000 bytes or more it contributes nothing.
OversizedExcludedByBytes ==
    resolver.stage = "returned" =>
        \A p \in OpenedPaths :
            disk.files[p].readable =>
                (p \in ContextSources <=> ByteSize(disk.files[p]) < MAX_IMPORT_FILE_SIZE)

(***************************************************************************)
(* The publisher and the pipeline: deduplication, exactly-once, failures.  *)
(***************************************************************************)

\* C1: the remote store never holds two open issues with the same title.
UniqueOpenTitles ==
    \A x \in DOMAIN store : x.state = "open" => store[x] <= 1

\* C2: when the previous run processed its records with no call failing and
\* no call of the current run has failed, the current run creates no issue,
\* and when it ends it has skipped every record.
SecondRunCreatesNothing ==
    (run >= 2 /\ prev.processed /\ ~prev.failed /\ ~RunFailed) =>
        /\ log.created = {}
        /\ current = 0
        /\ (pc = "done" => log.skipped = Futures)

\* C3: when a run that called process_sorries has ended, every record was
\* handed to create_github_issue exactly once.
EachHandedExactlyOnce ==
    (pc \in {"done", "exited"} /\ Futures # {}) =>
        \A i \in Futures : handed[i] = 1

\* C4: a record whose existence check failed has its creation attempted, and
\* the run goes on.
SearchFailureProceeds ==
    log.search_failed # {} =>
        /\ pc \notin {"exiting", "exited"}
        /\ \A i \in log.search_failed :
              i = current \/ i \in log.created \cup log.create_failed

\* C5: when a run in which an analysis call failed has ended, each record
\* whose analysis failed has the empty text as its analysis and was handed to
\* create_github_issue, and so was every other record, analysed.
FailedAnalysisStillPublished ==
    (pc \in {"done", "exited"} /\ log.analysis_failed # {}) =>
        /\ \A i \in log.analysis_failed :
              future_to_sorry[i].result = <<>> /\ handed[i] = 1
        /\ \A j \in Futures :
              future_to_sorry[j].state = "done" /\ handed[j] = 1

\* C6: a failed create leaves the store as it was, and when a run in which a
\* create failed has ended, every record was handed to create_github_issue.
FailedCreateDoesNotAbort ==
    /\ BagCardinality(store) = prev.issues + Cardinality(log.created)
    /\ log.created \cap log.create_failed = {}
    /\ (pc \in {"done", "exited"} /\ log.create_failed # {}) =>
          \A j \in Futures : handed[j] = 1

\* find_all_sorries has been called in the current run.
Walked == pc \in {"found", "crashed", "pool", "create", "exiting", "done"}
              \/ (pc = "exited" /\ Futures # {})

\* C7: an unreadable file does not end the walk: find_all_sorries returns,
\* and its list holds the records of every readable eligible file.
UnreadableFileSkipped ==
    Walked =>
        /\ pc # "crashed"
        /\ sorries_to_process = ReadableSorries(tree, args.web_search)

\* C8: in a dry run no analysis task is submitted, create_github_issue is
\* never called, nothing is searched or created in the store, and the run
\* ends only after find_all_sorries has returned its whole list.
DryRunInvokesNothing ==
    args.dry_run =>
        /\ Futures = {} /\ handed = <<>> /\ yielded = {} /\ current = 0
        /\ log = NoLog
        /\ pc \notin {"pool", "create", "exiting"}
        /\ BagCardinality(store) = prev.issues
        /\ pc = "done" => sorries_to_process = ReadableSorries(tree, args.web_search)

\* C8: a dry run has ended with two records found.
DryRunWitness ==
    /\ args.dry_run
    /\ pc = "done"
    /\ Len(sorries_to_process) >= 2


(***************************************************************************)
(* Import resolution: the web fallback and repeated imports.               *)
(***************************************************************************)

Context == resolver.result.context

Unresolved(parts) == FirstExisting(Candidates(parts)) = <<>>

\* The import lines of the file that name parts.
Occurrences(parts) == {k \in ImportLines : resolver.file_content[k].import = parts}

\* The sections of the context of one kind labelled parts.
SectionsOf(kind, parts) ==
    {j \in 1..Len(Context) : Context[j].kind = kind /\ Context[j].label = parts}

\* The file found for parts can be read and is under the threshold.
Readable(parts) ==
    /\ ~Unresolved(parts)
    /\ disk.files[FirstExisting(Candidates(parts))[1]].readable
    /\ disk.files[FirstExisting(Candidates(parts))[1]].chars < MAX_IMPORT_FILE_SIZE

\* C16: an import is looked up on the web exactly when web_search is set
\* and no candidate of the import exists; with web_search off an unresolved
\* import adds nothing to the context; either way the other imports of the
\* file are still resolved.
WebFallbackOnlyWhenUnresolved ==
    resolver.stage = "returned" =>
        \A k \in ImportLines :
            LET parts == resolver.file_content[k].import
            IN  /\ Cardinality(SectionsOf("web", parts))
                      = IF resolver.web_search /\ Unresolved(parts)
                        THEN Cardinality(Occurrences(parts)) ELSE 0
                /\ (~resolver.web_search /\ Unresolved(parts)) =>
                      \A j \in 1..Len(Context) : Context[j].label # parts
                /\ Readable(parts) =>
                      Cardinality(SectionsOf("file", parts))
                         = Cardinality(Occurrences(parts))

\* C16: a call with web_search set has returned the web section of AB.X,
\* which no root holds, followed by the file section of Ab.X.
WebFallbackWitness ==
    /\ resolver.stage = "returned"
    /\ resolver.web_search
    /\ resolver.file_content = <<ImportLine(ImportABX), ImportLine(ImportAbX)>>
    /\ Len(Context) = 2
    /\ Context[1].kind = "web" /\ Context[1].label = ImportABX
    /\ Context[2].kind = "file" /\ Context[2].label = ImportAbX

\* An occurrence of parts adds a section: a file that is read and under the
\* threshold, or a web lookup.
Contributes(parts) ==
    IF Unresolved(parts) THEN resolver.web_search ELSE Readable(parts)

RECURSIVE ExpectedLabels(_)
\* The imports of the contributing import lines from line k on.
ExpectedLabels(k) ==
    IF k > Len(resolver.file_content) THEN <<>>
    ELSE (IF k \in ImportLines /\ Contributes(resolver.file_content[k].import)
          THEN <<resolver.file_content[k].import>>
          ELSE <<>>) \o ExpectedLabels(k + 1)

\* C19: every occurrence of an import line is resolved and appended on its
\* own: an import that adds a section and occurs k times adds k sections,
\* and the sections follow the order of the import lines.
EveryOccurrenceAppended ==
    resolver.stage = "returned" =>
        /\ [j \in 1..Len(Context) |-> Context[j].label] = ExpectedLabels(1)
        /\ \A k \in ImportLines :
              LET parts == resolver.file_content[k].import
              IN  Contributes(parts) =>
                      Cardinality(SectionsOf("file", parts) \cup SectionsOf("web", parts))
                         = Cardinality(Occurrences(parts))

\* C19: a call has returned two sections for a file importing Ab.X twice.
EveryOccurrenceWitness ==
    /\ resolver.stage = "returned"
    /\ resolver.file_content = <<ImportLine(ImportAbX), ImportLine(ImportAbX)>>
    /\ Len(Context) = 2
    /\ Context[1].kind = "file" /\ Context[2] = Context[1]

(***************************************************************************)
(* process_sorries: attribution of results and order of the remote calls.  *)
(***************************************************************************)

\* C15: whatever the order of completion, the analysis in the body
\* published for a record is the result of the call submitted with that
\* record's snippet, file text and imports context (the empty text when
\* that call failed), and the body is built from that same record.
AnalysisAttributedToItsRecord ==
    \A i \in log.created :
        LET s == sorries_to_process[i]
        IN  log.bodies[i] =
                Body(s, IF i \in log.analysis_failed THEN AnalysisFailure
                        ELSE AnalysisText(s.snippet, s.full_content, s.imports_context))

\* C15: the issue of the second record submitted was created, with its
\* analysis, before the first record's future was yielded.
AnalysisAttributedWitness ==
    /\ 2 \in log.created
    /\ 1 \notin yielded
    /\ log.bodies[2].analysis_section # <<>>
    /\ sorries_to_process[1].snippet # sorries_to_process[2].snippet

\* C17: the check and create of one record are over before the check of
\* another record starts: a future is yielded, and its search made, only
\* when no create is awaited, one future at a time; the store changes only
\* in the create of the record whose check came last.
PublisherSerialized ==
    [][/\ (yielded' \ yielded # {}) =>
              /\ pc = "pool" /\ current = 0
              /\ Cardinality(yielded' \ yielded) = 1
       /\ (store' # store) =>
              /\ pc = "create" /\ current \in yielded
              /\ pc' = "pool" /\ current' = 0
              /\ yielded' = yielded]_vars

\* C17: a create is awaited while another future is finished and not yet
\* yielded and a third task is still running.
PublisherSerializedWitness ==
    /\ pc = "create"
    /\ current # 0
    /\ \E j \in Futures \ yielded : future_to_sorry[j].state = "done"
    /\ \E j \in Futures : future_to_sorry[j].state = "pending"

====
